---- MODULE Spec2Model ----
(***************************************************************************)
(* DVF analysis pipeline of ImmoSearch: record selection, extraction,      *)
(* outlier removal and statistics, as implemented three times:             *)
(*   "cli"   src/dvf_analyzer.py                 (DVFAnalyzer, run_analysis)*)
(*   "dvf"   src/mcp_servers/dvf_server.py       (DVFAnalyzer, analyze_dvf_data)*)
(*   "immo"  src/mcp_servers/immosearch_server.py(DVFAnalyzer, analyze_dvf_data)*)
(*                                                                         *)
(* Encoding of Python values:                                              *)
(*   - an optional value is a sequence: None is <<>>, a present x is <<x>>;*)
(*   - date_mutation strings are integers ordered as the strings are       *)
(*     ordered lexically; 0 is the empty string "";                        *)
(*   - valeur_fonciere (euros) and surface_relle_bati (m2) are integers;   *)
(*   - every amount rounded to 2 decimals (prix_m2, loyers) is kept in     *)
(*     hundredths, so round(x, 2) is an integer number of hundredths.      *)
(***************************************************************************)
EXTENDS Integers, Sequences, FiniteSets, TLC

VARIABLES
    impl,            \* which of the three implementations runs
    pc,              \* position in run_analysis / analyze_dvf_data
    data,            \* raw_data['resultats'], the argument of filter_recent_transactions
    max_results,     \* argument max_results
    nb_pieces,       \* argument nb_pieces (None or <<n>>)
    analysis_type,   \* argument analysis_type: "sale" or "rental"
    recent_data,     \* result of filter_recent_transactions
    recent_idx,      \* for each record of recent_data, its position in data
    extracted_data,  \* result of extract_relevant_data
    cleaned_data,    \* result of remove_outliers_iqr
    stats,           \* result of calculate_statistics (<<>> until computed)
    years_stats,     \* result of analyze_by_year (<<>> until computed)
    rooms_stats,     \* result of the segmentation by room count
    result,          \* what the call returned: status and error text
    recent_examples, \* the five most recent cleaned records (CLI, dvf_server.py)
    summary,         \* analysis_summary of a successful result of the servers
    history,         \* the calls this process has finished: input and outcome
    fetched_properties, \* module global of immosearch_server.py (None: not bound)
    search_result,   \* per client, what its last search_leboncoin_properties returned
    map_result       \* per client, what its last get_map was computed from

\* The report of a finished analysis next to stats and the segmentations.
reportVars == <<recent_examples, summary>>

\* The property search tools of immosearch_server.py.
serverVars == <<fetched_properties, search_result, map_result>>

\* One call of run_analysis / analyze_dvf_data.
callVars == <<impl, pc, data, max_results, nb_pieces, analysis_type, recent_data,
              recent_idx, extracted_data, cleaned_data, stats, years_stats,
              rooms_stats, result, reportVars>>

vars == <<callVars, history, serverVars>>

None == <<>>

Some(x) == <<x>>

Impls == {"cli", "dvf", "immo"}

AnalysisTypes == {"sale", "rental"}

\* Two clients of the immosearch server.
Clients == {"c1", "c2"}

\* A client that has not called the tool yet.
NoCall == [status |-> "none"]

-----------------------------------------------------------------------------
(* Sequence helpers                                                        *)

RECURSIVE SelectIdx(_, _, _)
\* The positions i of s, in increasing order and starting at i, where keep[i].
SelectIdx(keep, n, i) ==
    IF i > n THEN <<>>
    ELSE IF keep[i] THEN <<i>> \o SelectIdx(keep, n, i + 1)
    ELSE SelectIdx(keep, n, i + 1)

\* No truncation at all.
SliceKeepsAll(s, k) == s

\* Python s[:k]: the first k elements; a negative k drops the last -k.
Slice(s, k) ==
    LET n == Len(s)
        stop == IF k >= 0 THEN (IF k < n THEN k ELSE n)
                ELSE (IF n + k > 0 THEN n + k ELSE 0)
    IN SubSeq(s, 1, stop)

\* Python truthiness of t.get('date_mutation'): None and "" are false.
HasDate(t) == t.date_mutation # None /\ t.date_mutation[1] > 0

\* The sort key x['date_mutation'] of the record at position i.
DateKey(d, i) == d[i].date_mutation[1]

-----------------------------------------------------------------------------
(* filter_recent_transactions                                              *)

\* sorted(..., reverse=True) reversed the other way round: equal keys swapped.
InsertByDateDescUnstable(d, s, x) ==
    LET n == Cardinality({k \in 1..Len(s) : DateKey(d, s[k]) > DateKey(d, x)})
    IN SubSeq(s, 1, n) \o <<x>> \o SubSeq(s, n + 1, Len(s))

\* x placed into s (positions sorted by date, descending) behind every position
\* whose date is greater or equal: sorted() is stable, also with reverse=True.
InsertByDateDesc(d, s, x) ==
    LET n == Cardinality({k \in 1..Len(s) : DateKey(d, s[k]) >= DateKey(d, x)})
    IN SubSeq(s, 1, n) \o <<x>> \o SubSeq(s, n + 1, Len(s))

RECURSIVE SortByDateDesc(_, _)
\* sorted(list, key=lambda x: x['date_mutation'], reverse=True) on positions.
SortByDateDesc(d, s) ==
    IF s = <<>> THEN <<>>
    ELSE InsertByDateDesc(d, SortByDateDesc(d, SubSeq(s, 1, Len(s) - 1)), s[Len(s)])

\* A null room count taken as matching every filter.
RoomMatchesNullAsWildcard(t, nb) ==
    nb = None \/ t.nombre_pieces_principales = nb \/ t.nombre_pieces_principales = None

\* The room filter: t.get('nombre_pieces_principales') == nb_pieces, applied
\* when nb_pieces is not None.
RoomMatches(t, nb) == nb = None \/ t.nombre_pieces_principales = nb

\* The positions in d of the records filter_recent_transactions returns, in
\* the order it returns them. The two servers return [] for an empty list
\* before anything else; the slice of an empty list gives the CLI the same.
FilterRecentIdx(i, d, maxr, nb) ==
    IF i # "cli" /\ d = <<>> THEN <<>>
    ELSE LET keep == [k \in 1..Len(d) |-> RoomMatches(d[k], nb) /\ HasDate(d[k])]
         IN Slice(SortByDateDesc(d, SelectIdx(keep, Len(d), 1)), maxr)

\* filter_recent_transactions(data, max_results, nb_pieces)
filter_recent_transactions(i, d, maxr, nb) ==
    LET idx == FilterRecentIdx(i, d, maxr, nb)
    IN [k \in 1..Len(idx) |-> d[idx[k]]]

-----------------------------------------------------------------------------
(* extract_relevant_data                                                   *)

\* num/den truncated to hundredths instead of rounded.
Round2Truncating(num, den) == (100 * num) \div den

\* round(num / den, 2) in hundredths, for num >= 0 and den > 0. Python rounds
\* the double nearest to num/den; away from a tie the double's error cannot
\* change the result, and on a tie (100*num/den = q + 1/2) the quotient of the
\* inputs drawn here is a dyadic rational, so the double is exact and round()
\* goes to the even neighbour.
Round2(num, den) ==
    LET q == (100 * num) \div den
        r == (100 * num) % den
    IN IF 2 * r < den THEN q
       ELSE IF 2 * r > den THEN q + 1
       ELSE IF q % 2 = 0 THEN q ELSE q + 1

\* A value or an area that is a string, such as "150000": the pair of a tag
\* and the text, where a number x is <<x>>.
Text(str) == <<"str", str>>

IsNumber(v) == Len(v) = 1

\* `surface_relle_bati > 0` and `valeur_fonciere > 0` raise TypeError on a
\* string; `and` evaluates them from left to right and only after both
\* `is not None` tests passed, the second only when the first is true.
EssentialDataRaises(t) ==
    /\ t.valeur_fonciere # None
    /\ t.surface_relle_bati # None
    /\ \/ ~IsNumber(t.surface_relle_bati)
       \/ t.surface_relle_bati[1] > 0 /\ ~IsNumber(t.valeur_fonciere)

\* valeur_fonciere is not None and surface_relle_bati is not None and
\* surface_relle_bati > 0 and valeur_fonciere > 0
HasEssentialData(t) ==
    /\ t.valeur_fonciere # None
    /\ t.surface_relle_bati # None
    /\ t.surface_relle_bati[1] > 0
    /\ t.valeur_fonciere[1] > 0

\* unique_key = (date_mutation, valeur_fonciere, surface_relle_bati, voie)
UniqueKey(t) ==
    <<t.date_mutation, t.valeur_fonciere[1], t.surface_relle_bati[1], t.voie>>

\* No implementation keeping a seen set.
DeduplicatesNever(i) == FALSE

\* Only immosearch_server keeps the seen_transactions set.
Deduplicates(i) == i = "immo"

\* The yield rates (percent) whose rents an implementation attaches.
YieldRates(i) == IF i = "immo" THEN {5, 6, 7} ELSE {5, 6}

\* loyer_mensuel_<r>pct = round((valeur_fonciere * r) / (12 * 100), 2)
LoyerMensuel(v, r) == Round2(v * r, 12 * 100)

\* The rent per m2 taken from the unrounded monthly rent.
LoyerM2FromUnrounded(v, a, r) == Round2(v * r, 12 * 100 * a)

\* loyer_m2_<r>pct = round(loyer_<r>pct / surface_relle_bati, 2), from the
\* rounded monthly rent (hundredths over hundredths of the surface).
LoyerM2(v, a, r) == Round2(LoyerMensuel(v, r), 100 * a)

\* The rental fields item_data.update(...) adds for the rates of i.
RentalFields(i, v, a) ==
    [loyer_mensuel |-> [r \in YieldRates(i) |-> LoyerMensuel(v, r)],
     loyer_m2      |-> [r \in YieldRates(i) |-> LoyerM2(v, a, r)]]

\* item_data of one valid transaction.
ItemData(i, t, mode) ==
    LET v == t.valeur_fonciere[1]
        a == t.surface_relle_bati[1]
        base == [valeur_fonciere |-> v,
                 surface_relle_bati |-> a,
                 nombre_pieces_principales |-> t.nombre_pieces_principales,
                 prix_m2 |-> Round2(v, a),
                 date_mutation |-> t.date_mutation,
                 voie |-> t.voie,
                 commune |-> t.commune,
                 nature_mutation |-> t.nature_mutation]
    IN IF mode = "rental" THEN base @@ RentalFields(i, v, a) ELSE base

RECURSIVE ExtractLoop(_, _, _, _, _)
\* The loop of extract_relevant_data from transaction k on, seen being the
\* seen_transactions set so far.
ExtractLoop(i, ts, mode, k, seen) ==
    IF k > Len(ts) THEN <<>>
    ELSE IF ~HasEssentialData(ts[k]) THEN ExtractLoop(i, ts, mode, k + 1, seen)
    ELSE IF Deduplicates(i) /\ UniqueKey(ts[k]) \in seen
         THEN ExtractLoop(i, ts, mode, k + 1, seen)
    ELSE <<ItemData(i, ts[k], mode)>>
         \o ExtractLoop(i, ts, mode, k + 1,
                        IF Deduplicates(i) THEN seen \cup {UniqueKey(ts[k])} ELSE seen)

\* extract_relevant_data(transactions, analysis_type)
extract_relevant_data(i, ts, mode) == ExtractLoop(i, ts, mode, 1, {})

\* The keys of the valid transactions of the calls finished before.
SeenCarriedOver(h) ==
    UNION {{UniqueKey(h[k].input.data[j]) :
              j \in {m \in 1..Len(h[k].input.data) : HasEssentialData(h[k].input.data[m])}} :
           k \in 1..Len(h)}

\* seen_transactions = set(): the set is a local of extract_relevant_data,
\* created empty in every call whatever the calls h finished before.
SeenAtCall(h) == {}

\* extract_relevant_data raises TypeError: the loop reaches a transaction
\* whose test raises (no transaction before it ends the loop).
ExtractRaises(ts) == \E k \in 1..Len(ts) : EssentialDataRaises(ts[k])

-----------------------------------------------------------------------------
(* remove_outliers_iqr                                                     *)

RECURSIVE SortAsc(_)
\* sorted(prix_m2_list): ascending.
SortAsc(s) ==
    IF s = <<>> THEN <<>>
    ELSE LET rest == SortAsc(SubSeq(s, 1, Len(s) - 1))
             x == s[Len(s)]
             n == Cardinality({k \in 1..Len(rest) : rest[k] <= x})
         IN SubSeq(rest, 1, n) \o <<x>> \o SubSeq(rest, n + 1, Len(rest))

\* prix_m2_list = [item['prix_m2'] for item in data]
PrixList(d) == [k \in 1..Len(d) |-> d[k].prix_m2]

\* Four times the quartile of method='inclusive': m = ld - 1, j = i*m // 4,
\* delta = i*m - j*4, (data[j]*(4-delta) + data[j+1]*delta) / 4.
Quantile4Inclusive(prices, i) ==
    LET s == SortAsc(prices)
        m == Len(s) - 1
        j == (i * m) \div 4
        delta == i * m - j * 4
    IN s[j + 1] * (4 - delta) + s[j + 2] * delta

\* Four times statistics.quantiles(prices, n=4)[i-1], the default method being
\* 'exclusive': m = ld + 1, j = i*m // 4 clamped to 1..ld-1,
\* delta = i*m - j*4, (data[j-1]*(4-delta) + data[j]*delta) / 4. The product
\* by four keeps the quartile an integer number of quarter-hundredths.
Quantile4(prices, i) ==
    LET s == SortAsc(prices)
        ld == Len(s)
        m == ld + 1
        j0 == (i * m) \div 4
        j == IF j0 < 1 THEN 1 ELSE IF j0 > ld - 1 THEN ld - 1 ELSE j0
        delta == i * m - j * 4
    IN s[j] * (4 - delta) + s[j + 1] * delta

\* Eight times lower_bound = max(q1 - 1.5 * iqr, 0).
LowerBound8(prices) ==
    LET q1 == Quantile4(prices, 1)
        q3 == Quantile4(prices, 3)
        lb == 2 * q1 - 3 * (q3 - q1)
    IN IF lb > 0 THEN lb ELSE 0

\* The upper bound at Q3 itself ("keep only Q1 to Q3").
UpperBound8AtQ3(prices) == 2 * Quantile4(prices, 3)

\* Eight times upper_bound = q3 + 1.5 * iqr.
UpperBound8(prices) ==
    LET q1 == Quantile4(prices, 1)
        q3 == Quantile4(prices, 3)
    IN 2 * q3 + 3 * (q3 - q1)

\* Of the positions where keep holds, only the first of each price.
FilteredOncePerPrice(d, keep) ==
    LET idx == SelectIdx([k \in 1..Len(d) |->
                             keep[k] /\ \A j \in 1..(k - 1) : d[j].prix_m2 # d[k].prix_m2],
                         Len(d), 1)
    IN [k \in 1..Len(idx) |-> d[idx[k]]]

\* The records of d, in order, at the positions where keep holds.
Filtered(d, keep) ==
    LET idx == SelectIdx(keep, Len(d), 1)
    IN [k \in 1..Len(idx) |-> d[idx[k]]]

\* The fence with the bounds themselves excluded.
RemoveOutliersFenceStrict(d) ==
    IF Len(d) < 4 THEN d
    ELSE LET prices == PrixList(d)
             lo == LowerBound8(prices)
             hi == UpperBound8(prices)
         IN Filtered(d, [k \in 1..Len(d) |-> lo < 8 * prices[k] /\ 8 * prices[k] < hi])

\* remove_outliers_iqr of dvf_analyzer.py and dvf_server.py. The bounds are
\* computed in exact arithmetic; the code computes them in doubles.
RemoveOutliersFence(d) ==
    IF Len(d) < 4 THEN d
    ELSE LET prices == PrixList(d)
             lo == LowerBound8(prices)
             hi == UpperBound8(prices)
         IN Filtered(d, [k \in 1..Len(d) |-> lo <= 8 * prices[k] /\ 8 * prices[k] <= hi])

\* The lower index fixed at the smallest price.
TrimLowerIndexZero(n) == 0

\* lower_index = int(n * 0.15). The double product truncates to
\* floor(15 n / 100) for every n below 200000, far above the lengths drawn.
TrimLowerIndex(n) == (n * 15) \div 100

\* The upper index one position lower.
TrimUpperIndexOffByOne(n) == (n * 85) \div 100 - 1

\* upper_index = int(n * 0.85), floor(85 n / 100) likewise.
TrimUpperIndex(n) == (n * 85) \div 100

\* The trim with the boundary prices themselves removed.
RemoveOutliersTrimStrict(d) ==
    IF Len(d) < 4 THEN d
    ELSE LET prices == PrixList(d)
             s == SortAsc(prices)
             lo == s[TrimLowerIndex(Len(s)) + 1]
             hi == s[TrimUpperIndex(Len(s)) + 1]
         IN Filtered(d, [k \in 1..Len(d) |-> lo < prices[k] /\ prices[k] < hi])

\* remove_outliers_iqr of immosearch_server.py: each bound is read from
\* sorted_prices at its index when the index is below n.
RemoveOutliersTrim(d) ==
    IF Len(d) < 4 THEN d
    ELSE LET prices == PrixList(d)
             s == SortAsc(prices)
             n == Len(s)
             lower_index == TrimLowerIndex(n)
             upper_index == TrimUpperIndex(n)
             lo == IF lower_index < n THEN s[lower_index + 1] ELSE s[1]
             hi == IF upper_index < n THEN s[upper_index + 1] ELSE s[n]
         IN Filtered(d, [k \in 1..Len(d) |-> lo <= prices[k] /\ prices[k] <= hi])

\* The policies applied to the list read backwards.
RemoveOutliersReversed(i, d) ==
    LET r == [k \in 1..Len(d) |-> d[Len(d) + 1 - k]]
    IN IF i = "immo" THEN RemoveOutliersTrim(r) ELSE RemoveOutliersFence(r)

\* remove_outliers_iqr(data) of implementation i
remove_outliers_iqr(i, d) ==
    IF i = "immo" THEN RemoveOutliersTrim(d) ELSE RemoveOutliersFence(d)

-----------------------------------------------------------------------------
(* calculate_statistics                                                    *)
(*                                                                         *)
(* The amounts are hundredths. The lists drawn for the statistics hold     *)
(* whole euros only: a mean or a median of whole euros that falls half-way *)
(* between two hundredths is a multiple of 1/8, which a double holds       *)
(* exactly, so round(x, 2) rounds it to the even hundredth; and a sample   *)
(* standard deviation of fewer than 64 whole-euro values never falls       *)
(* half-way between two hundredths.                                        *)

SeqMin(s) == CHOOSE x \in {s[k] : k \in 1..Len(s)} : \A k \in 1..Len(s) : x <= s[k]

SeqMax(s) == CHOOSE x \in {s[k] : k \in 1..Len(s)} : \A k \in 1..Len(s) : x >= s[k]

RECURSIVE SeqSum(_)
SeqSum(s) == IF s = <<>> THEN 0 ELSE SeqSum(SubSeq(s, 1, Len(s) - 1)) + s[Len(s)]

\* num/den rounded to the nearest integer, a half to the even one (den > 0).
RoundHalfEven(num, den) ==
    LET q == num \div den
        r == num % den
    IN IF 2 * r < den THEN q
       ELSE IF 2 * r > den THEN q + 1
       ELSE IF q % 2 = 0 THEN q ELSE q + 1

\* round(statistics.mean(values), 2)
Mean(values) == RoundHalfEven(SeqSum(values), Len(values))

\* round(statistics.median(values), 2): the middle value of the sorted list,
\* the mean of the two middle values for an even count.
Median(values) ==
    LET s == SortAsc(values)
        n == Len(s)
    IN IF n % 2 = 1 THEN s[n \div 2 + 1]
       ELSE RoundHalfEven(s[n \div 2] + s[n \div 2 + 1], 2)

\* The squares of amounts exceed 32 bits: the sum of squares is computed in
\* limbs of 12 bits, least significant first.
Limb == 2 ^ 12

RECURSIVE Normalize(_, _, _)
\* The limbs of sum c[k] * Limb^(k-1), from coefficient k on with a carry.
Normalize(c, k, carry) ==
    IF k > Len(c)
    THEN IF carry = 0 THEN <<>> ELSE <<carry % Limb>> \o Normalize(c, k, carry \div Limb)
    ELSE LET v == c[k] + carry
         IN <<v % Limb>> \o Normalize(c, k + 1, v \div Limb)

\* Coefficient k of a limb sequence, 0 beyond its length.
Coef(c, k) == IF k <= Len(c) THEN c[k] ELSE 0

\* The limbs of n * sum(x^2) - (sum x)^2 for the amounts x = values[i]
\* (each below Limb^2, their sum below Limb^3).
SumSquaredDeviationsTimesN(values) ==
    LET n == Len(values)
        lo == [i \in 1..n |-> values[i] % Limb]
        hi == [i \in 1..n |-> values[i] \div Limb]
        sumsq == Normalize(<<SeqSum([i \in 1..n |-> lo[i] * lo[i]]),
                             SeqSum([i \in 1..n |-> 2 * lo[i] * hi[i]]),
                             SeqSum([i \in 1..n |-> hi[i] * hi[i]])>>, 1, 0)
        total == SeqSum(values)
        s0 == total % Limb
        s1 == (total \div Limb) % Limb
        s2 == total \div (Limb * Limb)
        square == <<s0 * s0, 2 * s0 * s1, 2 * s0 * s2 + s1 * s1, 2 * s1 * s2, s2 * s2>>
    IN Normalize([k \in 1..5 |-> n * Coef(sumsq, k) - square[k]], 1, 0)

RECURSIVE SqrtSteps(_, _, _, _, _)
\* The integer square root of a limb sequence, two bits at a time from the
\* most significant limb k, pair j of it: root and rem so far.
SqrtSteps(limbs, k, j, root, rem) ==
    IF k = 0 THEN root
    ELSE LET r2 == 4 * rem + ((limbs[k] \div (4 ^ j)) % 4)
             trial == 4 * root + 1
             kk == IF j = 0 THEN k - 1 ELSE k
             jj == IF j = 0 THEN 5 ELSE j - 1
         IN IF r2 >= trial THEN SqrtSteps(limbs, kk, jj, 2 * root + 1, r2 - trial)
            ELSE SqrtSteps(limbs, kk, jj, 2 * root, r2)

\* The variance taken over n instead of n - 1.
VarianceDivisorPopulation(n) == n * n

\* n times the divisor of the sample variance.
VarianceDivisor(n) == n * (n - 1)

\* round(statistics.stdev(values), 2) for two values or more: the hundredth
\* q nearest to sqrt(ss / (n*(n-1))), ss = n*sum(x^2) - (sum x)^2, that is
\* the greatest q with (2q - 1) * d <= sqrt(4 * d * ss), d = n*(n-1).
Stdev(values) ==
    LET d == VarianceDivisor(Len(values))
        ss == SumSquaredDeviationsTimesN(values)
        t == Normalize([k \in 1..Len(ss) |-> 4 * d * ss[k]], 1, 0)
        root == SqrtSteps(t, Len(t), 5, 0, 0)
    IN (root + d) \div (2 * d)

\* The guard of the standard deviation entries: if len(values) > 1
HasSpread(values) == Len(values) > 1

\* No early return for an empty list.
EmptyStatsNever(d) == FALSE

\* if not data: return {}
EmptyStats(d) == d = <<>>

\* item[field + '_5pct'] and so on of every record, the three rates of a
\* record next to each other: loyer_combined, loyer_m2_combined.
Combined(d, field) ==
    [k \in 1..(3 * Len(d)) |-> d[(k - 1) \div 3 + 1][field][5 + ((k - 1) % 3)]]

\* [item[field + '_<r>pct'] for item in data]
RateList(d, field, r) == [k \in 1..Len(d) |-> d[k][field][r]]

\* The sale statistics of the three implementations.
SaleStatistics(d) ==
    LET prix_m2_list == PrixList(d)
        base == [nb_transactions |-> Len(d),
                 prix_m2_moyen |-> Mean(prix_m2_list),
                 prix_m2_median |-> Median(prix_m2_list),
                 prix_m2_min |-> SeqMin(prix_m2_list),
                 prix_m2_max |-> SeqMax(prix_m2_list)]
    IN IF HasSpread(prix_m2_list)
       THEN base @@ [prix_m2_ecart_type |-> Stdev(prix_m2_list)]
       ELSE base

\* The rental statistics of dvf_analyzer.py and dvf_server.py: one set of
\* entries for each of the rates 5 and 6.
RentalStatisticsPerRate(d) ==
    LET l5 == RateList(d, "loyer_mensuel", 5)
        l6 == RateList(d, "loyer_mensuel", 6)
        m5 == RateList(d, "loyer_m2", 5)
        m6 == RateList(d, "loyer_m2", 6)
        base == [nb_transactions |-> Len(d),
                 loyer_5pct_moyen |-> Mean(l5),
                 loyer_5pct_median |-> Median(l5),
                 loyer_5pct_min |-> SeqMin(l5),
                 loyer_5pct_max |-> SeqMax(l5),
                 loyer_6pct_moyen |-> Mean(l6),
                 loyer_6pct_median |-> Median(l6),
                 loyer_6pct_min |-> SeqMin(l6),
                 loyer_6pct_max |-> SeqMax(l6),
                 loyer_m2_5pct_moyen |-> Mean(m5),
                 loyer_m2_5pct_median |-> Median(m5),
                 loyer_m2_6pct_moyen |-> Mean(m6),
                 loyer_m2_6pct_median |-> Median(m6)]
    IN IF HasSpread(l5)
       THEN base @@ [loyer_5pct_ecart_type |-> Stdev(l5),
                     loyer_6pct_ecart_type |-> Stdev(l6)]
       ELSE base

\* The rental statistics of immosearch_server.py: the rents of the rates 5,
\* 6 and 7 put into one list.
RentalStatisticsCombined(d) ==
    LET loyer_combined == Combined(d, "loyer_mensuel")
        loyer_m2_combined == Combined(d, "loyer_m2")
        base == [nb_transactions |-> Len(d),
                 loyer_moyen |-> Mean(loyer_combined),
                 loyer_median |-> Median(loyer_combined),
                 loyer_min |-> SeqMin(loyer_combined),
                 loyer_max |-> SeqMax(loyer_combined),
                 loyer_m2_moyen |-> Mean(loyer_m2_combined),
                 loyer_m2_median |-> Median(loyer_m2_combined),
                 loyer_m2_min |-> SeqMin(loyer_m2_combined),
                 loyer_m2_max |-> SeqMax(loyer_m2_combined)]
    IN IF HasSpread(loyer_combined)
       THEN base @@ [loyer_ecart_type |-> Stdev(loyer_combined),
                     loyer_m2_ecart_type |-> Stdev(loyer_m2_combined)]
       ELSE base

\* calculate_statistics(data, analysis_type): a dictionary, its keys the
\* record's fields; {} (the empty record <<>>) for no data.
calculate_statistics(i, d, mode) ==
    IF EmptyStats(d) THEN <<>>
    ELSE IF mode = "sale" THEN SaleStatistics(d)
    ELSE IF i = "immo" THEN RentalStatisticsCombined(d)
    ELSE RentalStatisticsPerRate(d)

\* The list whose length guards the standard deviation entries.
SpreadValues(i, d, mode) ==
    IF mode = "sale" THEN PrixList(d)
    ELSE IF i = "immo" THEN Combined(d, "loyer_mensuel")
    ELSE RateList(d, "loyer_mensuel", 5)

\* calculate_statistics raises StatisticsError: statistics.mean of no value,
\* statistics.stdev of fewer than two values.
StatisticsRaises(i, d, mode) ==
    /\ ~EmptyStats(d)
    /\ \/ d = <<>>
       \/ HasSpread(SpreadValues(i, d, mode)) /\ Len(SpreadValues(i, d, mode)) < 2

\* A call of the method calculate_statistics(cleaned_data, analysis_type) on
\* its own: it returns the statistics or raises.
CalculateStatistics ==
    /\ pc = "call"
    /\ IF StatisticsRaises(impl, cleaned_data, analysis_type)
       THEN /\ stats' = stats
            /\ result' = [status |-> "raised", error |-> "StatisticsError"]
       ELSE /\ stats' = calculate_statistics(impl, cleaned_data, analysis_type)
            /\ result' = [status |-> "returned", error |-> ""]
    /\ pc' = "returned"
    /\ UNCHANGED <<serverVars, history, reportVars>>
    /\ UNCHANGED <<impl, data, max_results, nb_pieces, analysis_type,
                   years_stats, rooms_stats,
                   recent_data, recent_idx, extracted_data, cleaned_data>>

-----------------------------------------------------------------------------
(* Segmentation by room count and by year                                  *)
(* A segmented result is a function from segment keys to statistics; {} is *)
(* the empty function <<>>. Room keys are written as strings: "2" is the   *)
(* integer key 2 of the CLI and the key str(2) of dvf_server.py.           *)

\* str(n) of a room count.
Str(n) == <<"1", "2", "3", "4", "5">>[n]

\* The year of a date: the dates 2y - 1 and 2y are the two dates of year y,
\* so years are ordered as the leading components of the date strings are.
YearOf(date) == (date + 1) \div 2

\* analyze_by_rooms: None becomes the key 'Non renseigne'.
RoomKeyCli(e) ==
    IF e.nombre_pieces_principales = None THEN "Non renseigne"
    ELSE Str(e.nombre_pieces_principales[1])

\* dvf_server.py: item.get('nombre_pieces_principales', 'Unknown'), the key is
\* always present in an extracted record, and the result is keyed by str().
RoomKeyDvf(e) ==
    IF e.nombre_pieces_principales = None THEN "None"
    ELSE Str(e.nombre_pieces_principales[1])

\* date_mutation.split('-')[0]
YearKey(e) == YearOf(e.date_mutation[1])

\* Whether the loop of segmentation seg ("rooms" and "year" of the CLI,
\* "rooms_dvf" of dvf_server.py) appends record e to a list: the year loop
\* skips a record without a date.
SegmentKeyed(seg, e) == seg # "year" \/ HasDate(e)

\* The key of the list record e is appended to.
SegmentKey(seg, e) ==
    CASE seg = "year" -> YearKey(e)
      [] seg = "rooms" -> RoomKeyCli(e)
      [] OTHER -> RoomKeyDvf(e)

\* The positions of d the loop appends to the list of key k.
SegmentIdx(seg, d, k) ==
    SelectIdx([j \in 1..Len(d) |-> SegmentKeyed(seg, d[j]) /\ SegmentKey(seg, d[j]) = k],
              Len(d), 1)

\* The list of key k: the prix_m2 of its records, in the order of d.
SegmentPrices(seg, d, k) ==
    LET idx == SegmentIdx(seg, d, k)
    IN [j \in 1..Len(idx) |-> d[idx[j]].prix_m2]

\* The keys of the dictionary the loop builds.
SegmentKeys(seg, d) ==
    {SegmentKey(seg, d[j]) : j \in {m \in 1..Len(d) : SegmentKeyed(seg, d[m])}}

\* The entry of one segment in dvf_analyzer.py.
SegmentStatistics(prix_list) ==
    [nb_transactions |-> Len(prix_list),
     prix_m2_moyen |-> Mean(prix_list),
     prix_m2_median |-> Median(prix_list),
     prix_m2_min |-> SeqMin(prix_list),
     prix_m2_max |-> SeqMax(prix_list)]

\* The entry of one segment in dvf_server.py: no minimum, no maximum.
SegmentStatisticsDvf(prix_list) ==
    [nb_transactions |-> Len(prix_list),
     prix_m2_moyen |-> Mean(prix_list),
     prix_m2_median |-> Median(prix_list)]

\* analyze_by_rooms(data)
analyze_by_rooms(d) ==
    [k \in SegmentKeys("rooms", d) |-> SegmentStatistics(SegmentPrices("rooms", d, k))]

\* analyze_by_year(data): a record whose date_mutation is None or "" is
\* skipped by `if date_mutation:`.
analyze_by_year(d) ==
    [k \in SegmentKeys("year", d) |-> SegmentStatistics(SegmentPrices("year", d, k))]

\* Step 7 of analyze_dvf_data in dvf_server.py: rooms_stats.
RoomsBreakdown(d) ==
    [k \in SegmentKeys("rooms_dvf", d) |->
        SegmentStatisticsDvf(SegmentPrices("rooms_dvf", d, k))]

\* A call of the method analyze_by_rooms(data) of dvf_analyzer.py on its own.
AnalyzeByRooms ==
    /\ pc = "call"
    /\ impl = "cli"
    /\ rooms_stats' = analyze_by_rooms(cleaned_data)
    /\ pc' = "returned"
    /\ result' = [status |-> "returned", error |-> ""]
    /\ UNCHANGED <<serverVars, history, reportVars>>
    /\ UNCHANGED <<impl, data, max_results, nb_pieces, analysis_type,
                   recent_data, recent_idx, extracted_data, cleaned_data,
                   stats, years_stats>>

\* A call of the method analyze_by_year(data) of dvf_analyzer.py on its own.
AnalyzeByYear ==
    /\ pc = "call"
    /\ impl = "cli"
    /\ years_stats' = analyze_by_year(cleaned_data)
    /\ pc' = "returned"
    /\ result' = [status |-> "returned", error |-> ""]
    /\ UNCHANGED <<serverVars, history, reportVars>>
    /\ UNCHANGED <<impl, data, max_results, nb_pieces, analysis_type,
                   recent_data, recent_idx, extracted_data, cleaned_data,
                   stats, rooms_stats>>

-----------------------------------------------------------------------------
(* run_analysis / analyze_dvf_data, one action per stage                   *)

Pending == [status |-> "pending", error |-> ""]

\* One text for every empty stage.
NoDataSameReason(i, stage) ==
    [status |-> IF i = "cli" THEN "none" ELSE "error", error |-> "No data available"]

\* The terminal result of an empty stage: the servers return status "error"
\* with the text; the CLI prints its message and returns None.
NoData(i, stage) ==
    IF i = "cli" THEN
        [status |-> "none",
         error |-> CASE stage = "filter" -> "Aucune transaction recente trouvee"
                     [] stage = "extract" -> "Aucune transaction avec donnees completes"
                     [] OTHER -> "Aucune transaction apres suppression des outliers"]
    ELSE
        [status |-> "error",
         error |-> CASE stage = "filter" -> "No recent transactions found with specified criteria"
                     [] stage = "extract" -> "No transactions with complete data found"
                     [] OTHER -> "No transactions after outlier removal"]

\* The result of a call whose fetch gave nothing: fetch_data returned None
\* (a RequestException, or a reply without 'resultats').
FetchFailed(i) ==
    IF i = "cli" THEN [status |-> "none", error |-> "Aucune donnee disponible"]
    ELSE [status |-> "error", error |-> "No data available for this postal code"]

\* No handler around the call: the exception reaches the caller.
FaultPropagates(i, exc) == [status |-> "raised", error |-> exc]

\* An exception exc raised inside the call: the servers catch it (`except
\* Exception`) and return status "error" with the text "Analysis failed: "
\* and str(e); run_analysis has no handler and the exception propagates.
Fault(i, exc) ==
    IF i = "cli" THEN [status |-> "raised", error |-> exc]
    ELSE [status |-> "error", error |-> "Analysis failed: " \o exc]

\* The outcomes of analyzer.fetch_data(code_postal): the reply with its
\* 'resultats', None, or an exception that is no RequestException (a reply
\* that is not JSON, under a requests whose JSONDecodeError is a ValueError
\* only).
FetchOutcomes == {"data", "none", "fault"}

\* 1. raw_data = fetch_data(code_postal); if not raw_data: return. `data` is
\* what the API holds for the postal code.
FetchStep ==
    /\ pc = "fetch"
    /\ \E outcome \in FetchOutcomes :
          /\ pc' = IF outcome = "data" THEN "start" ELSE "done"
          /\ result' = CASE outcome = "data" -> result
                          [] outcome = "none" -> FetchFailed(impl)
                          [] OTHER -> Fault(impl, "ValueError")
    /\ UNCHANGED <<serverVars, history, reportVars>>
    /\ UNCHANGED <<impl, data, max_results, nb_pieces, analysis_type,
                   years_stats, rooms_stats, recent_data, recent_idx,
                   extracted_data, cleaned_data, stats>>

\* 2. recent_data = filter_recent_transactions(...); if not recent_data: return
FilterStep ==
    /\ pc = "start"
    /\ recent_idx' = FilterRecentIdx(impl, data, max_results, nb_pieces)
    /\ recent_data' = filter_recent_transactions(impl, data, max_results, nb_pieces)
    /\ pc' = IF recent_data' = <<>> THEN "done" ELSE "filtered"
    /\ result' = IF recent_data' = <<>> THEN NoData(impl, "filter") ELSE result
    /\ UNCHANGED <<serverVars, history, reportVars>>
    /\ UNCHANGED <<impl, data, max_results, nb_pieces, analysis_type,
                   years_stats, rooms_stats,
                   extracted_data, cleaned_data, stats>>

\* 3. extracted_data = extract_relevant_data(...); if not extracted_data: return
ExtractStep ==
    /\ pc = "filtered"
    /\ IF ExtractRaises(recent_data)
       THEN /\ extracted_data' = extracted_data
            /\ pc' = "done"
            /\ result' = Fault(impl, "TypeError")
       ELSE /\ extracted_data' = ExtractLoop(impl, recent_data, analysis_type, 1,
                                            SeenAtCall(history))
            /\ pc' = IF extracted_data' = <<>> THEN "done" ELSE "extracted"
            /\ result' = IF extracted_data' = <<>> THEN NoData(impl, "extract") ELSE result
    /\ UNCHANGED <<serverVars, history, reportVars>>
    /\ UNCHANGED <<impl, data, max_results, nb_pieces, analysis_type,
                   years_stats, rooms_stats,
                   recent_data, recent_idx, cleaned_data, stats>>

\* 4. cleaned_data = remove_outliers_iqr(...); if not cleaned_data: return
OutlierStep ==
    /\ pc = "extracted"
    /\ cleaned_data' = remove_outliers_iqr(impl, extracted_data)
    /\ pc' = IF cleaned_data' = <<>> THEN "done" ELSE "cleaned"
    /\ result' = IF cleaned_data' = <<>> THEN NoData(impl, "outliers") ELSE result
    /\ UNCHANGED <<serverVars, history, reportVars>>
    /\ UNCHANGED <<impl, data, max_results, nb_pieces, analysis_type,
                   years_stats, rooms_stats,
                   recent_data, recent_idx, extracted_data, stats>>

\* The number of records shown as recent examples.
ExamplesShown == 5

\* The five oldest records instead of the five most recent.
RecentExamplesOldest(d) ==
    LET idx == SortByDateDesc(d, [k \in 1..Len(d) |-> k])
        n == IF Len(idx) < ExamplesShown THEN Len(idx) ELSE ExamplesShown
    IN [k \in 1..n |-> d[idx[Len(idx) - n + k]]]

\* sorted(cleaned_data, key=lambda x: x['date_mutation'], reverse=True)[:5]
RecentExamples(d) ==
    LET idx == Slice(SortByDateDesc(d, [k \in 1..Len(d) |-> k]), ExamplesShown)
    IN [k \in 1..Len(idx) |-> d[idx[k]]]

\* The removed records counted from the cleaned set.
AnalysisSummaryReversed(recent, extracted, cleaned) ==
    [transactions_with_data |-> Len(recent),
     transactions_analyzed |-> Len(cleaned),
     outliers_removed |-> Len(cleaned) - Len(extracted),
     most_recent |-> IF recent # <<>> THEN recent[1].date_mutation ELSE None,
     oldest_in_selection |-> IF recent # <<>> THEN recent[Len(recent)].date_mutation
                             ELSE None]

\* analysis_summary of the servers' successful result: the counts of the
\* stages and the date range of the selection.
AnalysisSummary(recent, extracted, cleaned) ==
    [transactions_with_data |-> Len(extracted),
     transactions_analyzed |-> Len(cleaned),
     outliers_removed |-> Len(extracted) - Len(cleaned),
     most_recent |-> IF recent # <<>> THEN recent[1].date_mutation ELSE None,
     oldest_in_selection |-> IF recent # <<>> THEN recent[Len(recent)].date_mutation
                             ELSE None]

\* 5. stats = calculate_statistics(cleaned_data, analysis_type), then the
\* segmentations of cleaned_data (the CLI by year and by room count,
\* dvf_server.py by room count, immosearch_server.py none), the recent
\* examples, the summary and the final return (the CLI returns None after
\* printing its report).
StatsStep ==
    /\ pc = "cleaned"
    /\ stats' = calculate_statistics(impl, cleaned_data, analysis_type)
    /\ years_stats' = IF impl = "cli" THEN analyze_by_year(cleaned_data)
                      ELSE years_stats
    /\ rooms_stats' = CASE impl = "cli" -> analyze_by_rooms(cleaned_data)
                        [] impl = "dvf" -> RoomsBreakdown(cleaned_data)
                        [] OTHER -> rooms_stats
    /\ recent_examples' = IF impl = "immo" THEN recent_examples
                          ELSE RecentExamples(cleaned_data)
    /\ summary' = IF impl = "cli" THEN summary
                  ELSE AnalysisSummary(recent_data, extracted_data, cleaned_data)
    /\ pc' = "done"
    /\ result' = [status |-> IF impl = "cli" THEN "none" ELSE "success", error |-> ""]
    /\ UNCHANGED <<serverVars, history>>
    /\ UNCHANGED <<impl, data, max_results, nb_pieces, analysis_type,
                   recent_data, recent_idx, extracted_data, cleaned_data>>

-----------------------------------------------------------------------------
(* Inputs                                                                  *)

MaxSelectLen == 3

MaxExtractLen == 3

MaxOutlierLen == 6

MaxPipelineLen == 4

MaxTrimLen == 7

MaxStatsLen == 4

MaxRentLen == 3

MaxSegmentLen == 4

MaxCallLen == 3

\* Every sequence over S of length 0..n.
SeqsUpTo(S, n) == UNION {[1..k -> S] : k \in 0..n}

\* A raw transaction of raw_data['resultats'].
Raw(dt, v, a, rm, street) ==
    [date_mutation |-> dt, valeur_fonciere |-> v, surface_relle_bati |-> a,
     nombre_pieces_principales |-> rm, voie |-> street,
     commune |-> "Chalon-sur-Saone", nature_mutation |-> "Vente"]

\* Selection inputs: no date, an empty date, two dates; no room count, two
\* room counts.
SelectRecords ==
    {Raw(dt, Some(1010), Some(16), rm, "RUE A") :
        dt \in {None, Some(0), Some(1), Some(2)}, rm \in {None, Some(2), Some(3)}}

\* Extraction inputs: valid transactions that differ in each component of the
\* identity key or only in the room count, and one transaction for each way
\* of lacking a usable value or area.
ExtractRecords ==
    {Raw(Some(id[1]), Some(va[1]), Some(va[2]), Some(id[3]), id[2]) :
        id \in {<<1, "RUE A", 2>>, <<1, "RUE A", 3>>, <<1, "RUE B", 2>>, <<2, "RUE A", 2>>},
        va \in {<<1010, 16>>, <<3000, 16>>, <<1010, 3>>}}
    \cup {Raw(Some(1), v, Some(16), Some(2), "RUE A") : v \in {None, Some(0), Some(-1010)}}
    \cup {Raw(Some(1), Some(1010), a, Some(2), "RUE A") : a \in {None, Some(0), Some(-16)}}

\* Outlier-removal inputs: extracted records whose prix_m2 (in hundredths) is
\* the value of a transaction of 100 m2.
OutlierRecords ==
    {ItemData("dvf", Raw(Some(1), Some(v), Some(100), Some(2), "RUE A"), "sale") :
        v \in {10, 1000, 1010, 50000}}

\* Four transactions of 10 m2 priced 1000, 2000, 3000 and 100000 per m2.
E2ERecords ==
    {Raw(Some(2), Some(10000), Some(10), Some(2), "RUE A"),
     Raw(Some(1), Some(20000), Some(10), Some(2), "RUE B"),
     Raw(Some(2), Some(30000), Some(10), Some(3), "RUE C"),
     Raw(Some(1), Some(1000000), Some(10), None, "RUE D")}

\* Pipeline inputs: the four priced transactions, one transaction without a
\* date and one without a surface.
PipelineRecords ==
    E2ERecords
    \cup {Raw(None, Some(20000), Some(10), Some(2), "RUE E"),
          Raw(Some(1), Some(20000), None, Some(2), "RUE F")}

\* The pipeline inputs of the rental mode: the same six transactions with
\* values that are multiples of 1200 times the surface, so that every rent
\* and rent per m2 is a whole number of euros.
RentalPipelineRecords ==
    {[t EXCEPT !.valeur_fonciere = Some((t.valeur_fonciere[1] \div 10) * 12)] :
        t \in PipelineRecords}

\* No report yet, no call finished before, nothing searched.
InitRest ==
    /\ recent_examples = <<>>
    /\ summary = <<>>
    /\ history = <<>>
    /\ fetched_properties = None
    /\ search_result = [c \in Clients |-> NoCall]
    /\ map_result = [c \in Clients |-> NoCall]

InitCommon ==
    /\ InitRest
    /\ impl \in Impls
    /\ result = Pending
    /\ stats = <<>>
    /\ years_stats = <<>>
    /\ rooms_stats = <<>>
    /\ cleaned_data = <<>>

\* A call of run_analysis / analyze_dvf_data whose fetch returned data.
Init ==
    /\ InitCommon
    /\ pc = "start"
    /\ analysis_type \in AnalysisTypes
    /\ data \in SeqsUpTo(IF analysis_type = "sale" THEN PipelineRecords
                          ELSE RentalPipelineRecords, MaxPipelineLen)
    /\ max_results \in {2, 100}
    /\ nb_pieces \in {None, Some(2)}
    /\ recent_data = <<>>
    /\ recent_idx = <<>>
    /\ extracted_data = <<>>

Next == FilterStep \/ ExtractStep \/ OutlierStep \/ StatsStep

Spec == Init /\ [][Next]_vars

\* filter_recent_transactions on every list, limit and room filter.
InitSelect ==
    /\ InitCommon
    /\ pc = "start"
    /\ data \in SeqsUpTo(SelectRecords, MaxSelectLen)
    /\ max_results \in {-2, -1, 0, 1, 2, 3}
    /\ nb_pieces \in {None, Some(2)}
    /\ analysis_type = "sale"
    /\ recent_data = <<>>
    /\ recent_idx = <<>>
    /\ extracted_data = <<>>

SpecSelect == InitSelect /\ [][FilterStep]_vars

\* extract_relevant_data on every list of transactions, in both modes.
InitExtract ==
    /\ InitCommon
    /\ pc = "filtered"
    /\ data = <<>>
    /\ max_results = 100
    /\ nb_pieces = None
    /\ analysis_type \in AnalysisTypes
    /\ recent_data \in SeqsUpTo(ExtractRecords, MaxExtractLen)
    /\ recent_idx = <<>>
    /\ extracted_data = <<>>

SpecExtract == InitExtract /\ [][ExtractStep]_vars

\* remove_outliers_iqr on every list of extracted records.
InitOutlier ==
    /\ InitCommon
    /\ pc = "extracted"
    /\ data = <<>>
    /\ max_results = 100
    /\ nb_pieces = None
    /\ analysis_type = "sale"
    /\ recent_data = <<>>
    /\ recent_idx = <<>>
    /\ extracted_data \in SeqsUpTo(OutlierRecords, MaxOutlierLen)

SpecOutlier == InitOutlier /\ [][OutlierStep]_vars

\* Inputs on which both outlier policies remove records: extracted records
\* of 100 m2 with a low, a middle and a high prix_m2, the middle one in two
\* streets (two different records of one price). The trim indices are 0 and
\* n - 1 up to six records, so the lists go up to seven.
TrimRecords ==
    {ItemData("immo", Raw(Some(1), Some(vs[1]), Some(100), Some(2), vs[2]), "sale") :
        vs \in {<<10, "RUE A">>, <<1000, "RUE A">>, <<1000, "RUE B">>, <<50000, "RUE A">>}}

\* remove_outliers_iqr of the two servers, one of each policy, on every list
\* of those records.
InitTrim ==
    /\ InitCommon
    /\ impl \in {"dvf", "immo"}
    /\ pc = "extracted"
    /\ data = <<>>
    /\ max_results = 100
    /\ nb_pieces = None
    /\ analysis_type = "sale"
    /\ recent_data = <<>>
    /\ recent_idx = <<>>
    /\ extracted_data \in SeqsUpTo(TrimRecords, MaxTrimLen)

SpecTrim == InitTrim /\ [][OutlierStep]_vars

\* Rent inputs: a transaction of 450 euros and 3 m2, whose rent per m2 at 5%
\* is 0.63 from the rounded monthly rent 1.88 and would be 0.62 from the
\* unrounded 1.875; two more transactions; one without a value.
RentRecords ==
    {Raw(Some(1), va[1], Some(va[2]), Some(2), va[3]) :
        va \in {<<Some(450), 3, "RUE A">>, <<Some(1010), 16, "RUE B">>,
                <<Some(3000), 16, "RUE C">>, <<None, 16, "RUE D">>}}

\* extract_relevant_data on every list of those transactions, in both modes.
InitRent ==
    /\ InitCommon
    /\ pc = "filtered"
    /\ data = <<>>
    /\ max_results = 100
    /\ nb_pieces = None
    /\ analysis_type \in AnalysisTypes
    /\ recent_data \in SeqsUpTo(RentRecords, MaxRentLen)
    /\ recent_idx = <<>>
    /\ extracted_data = <<>>

SpecRent == InitRent /\ [][ExtractStep]_vars

\* Statistics inputs: extracted records of 10 m2, priced 100, 200 and 300
\* per m2 in sale mode; in rental mode their values are multiples of 1200
\* times the surface, so that every rent is a whole number of euros.
StatsRecords(i, mode) ==
    {ItemData(i, Raw(Some(1), Some(IF mode = "sale" THEN 1000 * k ELSE 12000 * k),
                     Some(10), Some(2), "RUE A"), mode) : k \in 1..3}

\* calculate_statistics on every list of those records, the empty one too.
InitStats ==
    /\ InitRest
    /\ impl \in Impls
    /\ result = Pending
    /\ stats = <<>>
    /\ years_stats = <<>>
    /\ rooms_stats = <<>>
    /\ pc = "call"
    /\ data = <<>>
    /\ max_results = 100
    /\ nb_pieces = None
    /\ analysis_type \in AnalysisTypes
    /\ recent_data = <<>>
    /\ recent_idx = <<>>
    /\ extracted_data = <<>>
    /\ cleaned_data \in SeqsUpTo(StatsRecords(impl, analysis_type), MaxStatsLen)

SpecStats == InitStats /\ [][CalculateStatistics]_vars

\* What the API may hold: two valid transactions of different room counts,
\* one without a date, one without a surface, and two whose value or
\* surface is a string.
CallRecords ==
    {Raw(Some(1), Some(10000), Some(10), Some(2), "RUE A"),
     Raw(Some(2), Some(20000), Some(10), Some(3), "RUE B"),
     Raw(None, Some(20000), Some(10), Some(2), "RUE E"),
     Raw(Some(1), Some(20000), None, Some(2), "RUE F"),
     Raw(Some(1), Text("150000"), Some(10), Some(2), "RUE G"),
     Raw(Some(1), Some(20000), Text("50"), Some(2), "RUE H")}

\* A call of run_analysis / analyze_dvf_data from its first statement: the
\* fetch may fail.
InitCall ==
    /\ InitCommon
    /\ pc = "fetch"
    /\ data \in SeqsUpTo(CallRecords, MaxCallLen)
    /\ max_results = 100
    /\ nb_pieces \in {None, Some(2)}
    /\ analysis_type = "sale"
    /\ recent_data = <<>>
    /\ recent_idx = <<>>
    /\ extracted_data = <<>>

CallStep == FetchStep \/ Next

SpecCall == InitCall /\ [][CallStep]_vars

\* ---------------------------------------------------------------------
\* immosearch_server: search_leboncoin_properties and get_map.  The two
\* tools are synchronous functions of one process, so each call runs to
\* its return before the next one starts; calls of different clients
\* interleave call by call.  The listing search, the travel-time lookup
\* and the map upload are remote services: what they answer is drawn
\* from the outcomes the code distinguishes.
\* ---------------------------------------------------------------------

\* properties = formatted_results.get("properties", [])[:20]
PropertiesLimit == 20

\* Listing identifiers and the longest answer of the listing service.
MaxAds == 1

AdIds == 1..2

\* An answer longer than the limit of the server.
LongListing == [k \in 1..(PropertiesLimit + 1) |-> 1 + (k % 2)]

\* The listings a search can bring back: up to MaxAds consecutive listings
\* from some first one, or the long answer; the empty one is an answer
\* without 'ads', which format_results turns into no property at all.
RawResults ==
    {[k \in 1..n |-> a + k - 1] : n \in 0..MaxAds, a \in AdIds} \cup {LongListing}

\* What a search call can run into: no API key, a falsy answer of the
\* listing service, an exception anywhere before the result is built, or
\* an answer.
SearchOutcomes == {"no_key", "no_results", "raises", "results"}

\* The index lists a client can ask a map for.
IdxLists == {{0}, {1, PropertiesLimit}}

\* The first 20 properties, each given its position as "idx".
Properties(raw) ==
    [k \in 1..(IF Len(raw) < PropertiesLimit THEN Len(raw) ELSE PropertiesLimit) |->
        [id |-> raw[k], idx |-> k - 1]]

\* The dictionary search_leboncoin_properties returns.
SearchResult(outcome, raw) ==
    CASE outcome = "no_key" ->
           [status |-> "error", error |-> "API key is required", properties |-> <<>>]
      [] outcome = "no_results" ->
           [status |-> "error", error |-> "No results found or API error occurred",
            properties |-> <<>>]
      [] outcome = "raises" ->
           [status |-> "error", error |-> "Exception", properties |-> <<>>]
      [] OTHER ->
           [status |-> "success", error |-> "", properties |-> Properties(raw)]

FetchedCleared(buffer, outcome, raw) ==
    IF outcome = "results" THEN Some(Properties(raw)) ELSE None

\* The module-level fetched_properties after a search call: bound to the
\* properties on the path that returns success, untouched on every other.
FetchedAfter(buffer, outcome, raw) ==
    IF outcome = "results" THEN Some(Properties(raw)) ELSE buffer

\* [f for (i, f) in enumerate(fetched_properties) if i in idx_list]
RECURSIVE FilteredFrom(_, _, _)
FilteredFrom(props, idx_list, k) ==
    IF k > Len(props) THEN <<>>
    ELSE (IF (k - 1) \in idx_list THEN <<props[k]>> ELSE <<>>)
           \o FilteredFrom(props, idx_list, k + 1)

FilteredList(props, idx_list) == FilteredFrom(props, idx_list, 1)

\* get_map: the properties put on the map and the number of labels, read
\* from the module-level buffer; before the first successful search the
\* name is unbound and the call raises NameError.
get_map(buffer, idx_list) ==
    IF buffer = None
    THEN [status |-> "raised", error |-> "NameError", idx_list |-> idx_list,
          shown |-> <<>>, labels |-> 0]
    ELSE [status |-> "returned", error |-> "", idx_list |-> idx_list,
          shown |-> FilteredList(buffer[1], idx_list), labels |-> Len(buffer[1])]

SearchLeboncoinProperties(c) ==
    /\ \E outcome \in SearchOutcomes :
       \E raw \in (IF outcome = "results" THEN RawResults ELSE {<<>>}) :
         /\ search_result' = [search_result EXCEPT ![c] = SearchResult(outcome, raw)]
         /\ fetched_properties' = FetchedAfter(fetched_properties, outcome, raw)
    /\ UNCHANGED <<callVars, history, map_result>>

GetMap(c) ==
    /\ \E idx_list \in IdxLists :
         map_result' = [map_result EXCEPT ![c] = get_map(fetched_properties, idx_list)]
    /\ UNCHANGED <<callVars, history, fetched_properties, search_result>>

\* The server after start-up, no analysis running.
InitServer ==
    /\ InitCommon
    /\ impl = "immo"
    /\ pc = "done"
    /\ data = <<>>
    /\ max_results = 100
    /\ nb_pieces = None
    /\ analysis_type = "sale"
    /\ recent_data = <<>>
    /\ recent_idx = <<>>
    /\ extracted_data = <<>>

ServerStep == \E c \in Clients : SearchLeboncoinProperties(c) \/ GetMap(c)

SpecServer == InitServer /\ [][ServerStep]_vars

\* ---------------------------------------------------------------------
\* The report of a whole run: selections of a fixed list of transactions
\* of 10 m2, long enough for more than five cleaned records.
\* ---------------------------------------------------------------------

MaxSummaryLen == 8

\* The k-th transaction of the list: the first far above the others
\* (50000 euros per m2), the second without a surface, the others between
\* 1030 and 1090 euros per m2; the dates run through four months.
SummaryRaw(k) ==
    Raw(Some(1 + (k % 4)),
        Some(IF k = 1 THEN 500000 ELSE 10000 + 100 * k),
        IF k = 2 THEN None ELSE Some(10),
        Some(2), "RUE A")

RECURSIVE PickFrom(_, _)
PickFrom(S, k) ==
    IF k > MaxSummaryLen THEN <<>>
    ELSE (IF k \in S THEN <<SummaryRaw(k)>> ELSE <<>>) \o PickFrom(S, k + 1)

\* Every sub-list of the list, in its order.
SummaryLists == {PickFrom(S, 1) : S \in SUBSET (1..MaxSummaryLen)}

InitSummary ==
    /\ InitCommon
    /\ pc = "start"
    /\ analysis_type = "sale"
    /\ data \in SummaryLists
    /\ max_results \in {3, 100}
    /\ nb_pieces = None
    /\ recent_data = <<>>
    /\ recent_idx = <<>>
    /\ extracted_data = <<>>

SpecSummary == InitSummary /\ [][Next]_vars

\* ---------------------------------------------------------------------
\* Calls one after the other in the same process.
\* ---------------------------------------------------------------------

\* The calls a process makes after its first, and the longest record list.
MaxCalls == 2

MaxRepeatLen == 1

RepeatRecords ==
    {Raw(Some(2), Some(10000), Some(10), Some(2), "RUE A"),
     Raw(Some(1), Some(20000), Some(10), Some(2), "RUE B")}

\* What a call is given and what it gives back.
CallInput ==
    [data |-> data, max_results |-> max_results, nb_pieces |-> nb_pieces,
     analysis_type |-> analysis_type]

CallOutcome ==
    [result |-> result, stats |-> stats, rooms_stats |-> rooms_stats,
     recent_examples |-> recent_examples, summary |-> summary]

\* The next call of the process: the finished call is put on record and
\* the new one starts with its own analyzer object and fresh locals.
NewCall ==
    /\ pc = "done"
    /\ Len(history) < MaxCalls
    /\ history' = Append(history, [input |-> CallInput, outcome |-> CallOutcome])
    /\ data' \in SeqsUpTo(RepeatRecords, MaxRepeatLen)
    /\ pc' = "start"
    /\ result' = Pending
    /\ recent_data' = <<>>
    /\ recent_idx' = <<>>
    /\ extracted_data' = <<>>
    /\ cleaned_data' = <<>>
    /\ stats' = <<>>
    /\ years_stats' = <<>>
    /\ rooms_stats' = <<>>
    /\ recent_examples' = <<>>
    /\ summary' = <<>>
    /\ UNCHANGED <<impl, max_results, nb_pieces, analysis_type, serverVars>>

InitRepeat ==
    /\ InitCommon
    /\ impl \in {"dvf", "immo"}
    /\ pc = "start"
    /\ analysis_type = "sale"
    /\ data \in SeqsUpTo(RepeatRecords, MaxRepeatLen)
    /\ max_results = 100
    /\ nb_pieces = None
    /\ recent_data = <<>>
    /\ recent_idx = <<>>
    /\ extracted_data = <<>>

RepeatStep == Next \/ NewCall

SpecRepeat == InitRepeat /\ [][RepeatStep]_vars

\* Segmentation inputs: transactions of 10 m2 of two years (the dates 1 and
\* 2 of year 1, the date 3 of year 2), with two room counts and without one.
SegmentRaw ==
    {Raw(Some(1), Some(10000), Some(10), Some(2), "RUE A"),
     Raw(Some(2), Some(20000), Some(10), Some(2), "RUE B"),
     Raw(Some(3), Some(30000), Some(10), Some(3), "RUE C"),
     Raw(Some(3), Some(30000), Some(10), None, "RUE D")}

\* The records a caller of the CLI's two methods passes: the extracted
\* records of those transactions, and two records whose date_mutation is
\* None and "" (extract_relevant_data copies the date without looking at it).
SegmentRecords ==
    {ItemData("cli", t, "sale") : t \in SegmentRaw}
    \cup {ItemData("cli", Raw(dt, Some(20000), Some(10), Some(2), "RUE E"), "sale") :
            dt \in {None, Some(0)}}

\* Either analyze_dvf_data of dvf_server.py is called, and its fetch returned
\* a list of those transactions, or one of the two segmentation methods of
\* dvf_analyzer.py is called on a list of records.
InitSegment ==
    /\ InitRest
    /\ impl \in {"cli", "dvf"}
    /\ result = Pending
    /\ stats = <<>>
    /\ years_stats = <<>>
    /\ rooms_stats = <<>>
    /\ pc = IF impl = "cli" THEN "call" ELSE "start"
    /\ data \in IF impl = "cli" THEN {<<>>} ELSE SeqsUpTo(SegmentRaw, MaxSegmentLen)
    /\ max_results = 100
    /\ nb_pieces = None
    /\ analysis_type = "sale"
    /\ recent_data = <<>>
    /\ recent_idx = <<>>
    /\ extracted_data = <<>>
    /\ cleaned_data \in IF impl = "cli" THEN SeqsUpTo(SegmentRecords, MaxSegmentLen)
                        ELSE {<<>>}

SegmentStep == Next \/ AnalyzeByRooms \/ AnalyzeByYear

SpecSegment == InitSegment /\ [][SegmentStep]_vars

-----------------------------------------------------------------------------
(* Properties                                                              *)

\* The elements of a sequence.
Range(s) == {s[k] : k \in 1..Len(s)}

\* The end-to-end case: the raw list is the four priced transactions, in any
\* order, all of them selected (no room filter, a limit above four).
E2ECase ==
    /\ Len(data) = 4
    /\ Range(data) = E2ERecords
    /\ nb_pieces = None
    /\ max_results >= 4

\* The price 100000 per m2, in hundredths.
HasExtremePrice(d) == \E k \in 1..Len(d) : d[k].prix_m2 = 100000 * 100

C2_TrimRemovesExtreme ==
    (E2ECase /\ impl = "immo" /\ pc \in {"cleaned", "done"})
        => ~HasExtremePrice(cleaned_data)

\* C2 amended: on those four transactions the trim bounds are
\* sorted[int(4*0.15)] = sorted[0] = 1000 and sorted[int(4*0.85)] = sorted[3]
\* = 100000, so remove_outliers_iqr of immosearch_server excludes no record.
C2_TrimKeepsAllFour ==
    (E2ECase /\ impl = "immo" /\ pc \in {"cleaned", "done"})
        => /\ cleaned_data = extracted_data
           /\ Len(cleaned_data) = 4
           /\ HasExtremePrice(cleaned_data)

\* immosearch_server has removed outliers from the four extracted records.
C2_Witness ==
    /\ E2ECase
    /\ impl = "immo"
    /\ pc = "cleaned"
    /\ Len(extracted_data) = 4
    /\ HasExtremePrice(extracted_data)

\* An input transaction with a value and an area, both above zero.
Usable(t) ==
    /\ Len(t.valeur_fonciere) = 1
    /\ Len(t.surface_relle_bati) = 1
    /\ t.valeur_fonciere[1] >= 1
    /\ t.surface_relle_bati[1] >= 1

Abs(x) == IF x < 0 THEN -x ELSE x

\* The identity key of an extracted record.
KeyOfExtracted(e) ==
    <<e.date_mutation, e.valeur_fonciere, e.surface_relle_bati, e.voie>>

\* The identity key of a usable input transaction.
KeyOfInput(t) ==
    <<t.date_mutation, t.valeur_fonciere[1], t.surface_relle_bati[1], t.voie>>

\* C3: every record extract_relevant_data returns, in both modes and in the
\* three implementations, has valeur_fonciere > 0, surface_relle_bati > 0 and
\* a prix_m2 that is valeur_fonciere / surface_relle_bati rounded to 2
\* decimals (within half a hundredth of the quotient); it comes from an input
\* transaction with that value and area, and the transactions with a missing,
\* zero or negative value or area give no record.
C3_ExtractedRecordsValid ==
    pc # "filtered" =>
        /\ \A k \in 1..Len(extracted_data) :
              LET e == extracted_data[k]
              IN /\ e.valeur_fonciere > 0
                 /\ e.surface_relle_bati > 0
                 /\ 2 * Abs(100 * e.valeur_fonciere - e.prix_m2 * e.surface_relle_bati)
                        <= e.surface_relle_bati
                 /\ \E j \in 1..Len(recent_data) :
                        /\ Usable(recent_data[j])
                        /\ KeyOfInput(recent_data[j]) = KeyOfExtracted(e)
        /\ Len(extracted_data)
              <= Cardinality({j \in 1..Len(recent_data) : Usable(recent_data[j])})

\* Extraction in rental mode has kept a record whose price had to be rounded
\* and has dropped a transaction without usable value or area.
C3_Witness ==
    /\ pc = "extracted"
    /\ analysis_type = "rental"
    /\ \E j \in 1..Len(recent_data) : ~Usable(recent_data[j])
    /\ \E k \in 1..Len(extracted_data) :
          extracted_data[k].prix_m2 * extracted_data[k].surface_relle_bati
              # 100 * extracted_data[k].valeur_fonciere

\* Position j holds a usable transaction whose identity key no usable
\* transaction before it has.
FirstOccurrence(ts, j) ==
    /\ Usable(ts[j])
    /\ \A h \in 1..(j - 1) : ~(Usable(ts[h]) /\ KeyOfInput(ts[h]) = KeyOfInput(ts[j]))

\* C4: extract_relevant_data of immosearch_server returns, in input order,
\* exactly the usable transactions that are the first occurrence of their
\* identity key (date_mutation, valeur_fonciere, surface_relle_bati, voie);
\* no two output records share a key.
C4_FirstOccurrencesInOrder ==
    (impl = "immo" /\ pc # "filtered") =>
        LET firsts == SelectIdx([j \in 1..Len(recent_data) |->
                                    FirstOccurrence(recent_data, j)],
                                Len(recent_data), 1)
        IN /\ Len(extracted_data) = Len(firsts)
           /\ \A k \in 1..Len(firsts) :
                 /\ KeyOfExtracted(extracted_data[k]) = KeyOfInput(recent_data[firsts[k]])
                 /\ extracted_data[k].nombre_pieces_principales
                        = recent_data[firsts[k]].nombre_pieces_principales
           /\ \A k, l \in 1..Len(extracted_data) :
                 k # l => KeyOfExtracted(extracted_data[k]) # KeyOfExtracted(extracted_data[l])

\* immosearch_server has extracted a list in which a later transaction repeats
\* the key of an earlier one with another room count, and has kept a record
\* after the repeat.
C4_Witness ==
    /\ impl = "immo"
    /\ pc = "extracted"
    /\ Len(recent_data) = 3
    /\ Usable(recent_data[1])
    /\ Usable(recent_data[2])
    /\ KeyOfInput(recent_data[1]) = KeyOfInput(recent_data[2])
    /\ recent_data[1].nombre_pieces_principales # recent_data[2].nombre_pieces_principales
    /\ Len(extracted_data) = 2

\* C5: in the CLI analyzer and in dvf_server, no two records of one output of
\* extract_relevant_data share the identity key, also when the input holds
\* the same transaction twice.
C5_NoSharedKey ==
    (impl \in {"cli", "dvf"} /\ pc # "filtered") =>
        \A k, l \in 1..Len(extracted_data) :
            k # l => KeyOfExtracted(extracted_data[k]) # KeyOfExtracted(extracted_data[l])

\* The date of the input transaction at position i, i having one.
DateAt(i) == data[i].date_mutation[1]

\* Input position i holds a transaction with a non-empty date.
Dated(i) == Len(data[i].date_mutation) = 1 /\ data[i].date_mutation[1] # 0

\* Input position i passes the room filter of the call.
PassesRoomFilter(i) ==
    Len(nb_pieces) = 0 \/ data[i].nombre_pieces_principales = nb_pieces

\* The input positions filter_recent_transactions returned.
Returned == Range(recent_idx)

\* recent_data holds the transactions at the positions recent_idx, each
\* position once.
ReturnedAreInputRecords ==
    /\ Len(recent_idx) = Len(recent_data)
    /\ Cardinality(Returned) = Len(recent_idx)
    /\ \A k \in 1..Len(recent_idx) :
          recent_idx[k] \in 1..Len(data) /\ recent_data[k] = data[recent_idx[k]]

\* At most max_results records, in non-increasing date order.
AtMostMaxInDateOrder ==
    /\ ReturnedAreInputRecords
    /\ Len(recent_data) <= max_results
    /\ \A k \in 1..(Len(recent_idx) - 1) : DateAt(recent_idx[k]) >= DateAt(recent_idx[k + 1])

\* C6 as stated: for every input list and every max_results >= 1,
\* filter_recent_transactions returns at most max_results records in
\* non-increasing date order, and no record left out of the result has a
\* date strictly later than a returned record's date.
C6_MostRecentOfAllRecords ==
    (pc # "start" /\ max_results >= 1) =>
        /\ AtMostMaxInDateOrder
        /\ \A i \in 1..Len(data) : \A j \in Returned :
              (i \notin Returned /\ Dated(i)) => ~(DateAt(i) > DateAt(j))

\* C6 amended: for every input list, every max_results >= 1 and every room
\* filter, filter_recent_transactions returns at most max_results records in
\* non-increasing date order, and no record left out of the result that
\* passes the room filter (nb_pieces absent, or equal to the record's room
\* count) has a date strictly later than a returned record's date.
C6_MostRecentOfMatchingRecords ==
    (pc # "start" /\ max_results >= 1) =>
        /\ AtMostMaxInDateOrder
        /\ \A i \in 1..Len(data) : \A j \in Returned :
              (i \notin Returned /\ Dated(i) /\ PassesRoomFilter(i))
                  => ~(DateAt(i) > DateAt(j))

\* A selection that truncated: three dated transactions of two dates pass
\* the filter and max_results = 2 leaves the oldest out.
C6_Witness ==
    /\ pc = "filtered"
    /\ max_results = 2
    /\ Len(data) = 3
    /\ \A i \in 1..3 : Dated(i) /\ PassesRoomFilter(i)
    /\ \E i, j \in 1..3 : DateAt(i) # DateAt(j)
    /\ Len(recent_data) = 2

\* C7: filter_recent_transactions returns an empty list whenever
\* max_results <= 0 (zero and every negative value) or the input list is
\* empty.
C7_EmptyForNonPositiveLimit ==
    (pc # "start" /\ (max_results <= 0 \/ data = <<>>)) => recent_data = <<>>

\* C8: every record filter_recent_transactions returns has a non-empty
\* date_mutation and, when nb_pieces is given, a room count equal to
\* nb_pieces (so never a null one); with no filter no record is excluded for
\* its room count: short of the limit, every dated record is returned.
C8_DatedAndRoomFiltered ==
    pc # "start" =>
        /\ ReturnedAreInputRecords
        /\ \A k \in 1..Len(recent_data) :
              /\ Len(recent_data[k].date_mutation) = 1
              /\ recent_data[k].date_mutation[1] # 0
              /\ Len(nb_pieces) = 1 =>
                    /\ Len(recent_data[k].nombre_pieces_principales) = 1
                    /\ recent_data[k].nombre_pieces_principales[1] = nb_pieces[1]
        /\ (Len(nb_pieces) = 0 /\ Len(recent_data) < max_results) =>
              \A i \in 1..Len(data) : Dated(i) => i \in Returned

\* A selection under a room filter whose input held a dated record without
\* room count and a dated record with another room count.
C8_Witness ==
    /\ pc = "filtered"
    /\ nb_pieces = Some(2)
    /\ \E i, j \in 1..Len(data) :
          /\ Dated(i) /\ data[i].nombre_pieces_principales = None
          /\ Dated(j) /\ data[j].nombre_pieces_principales = Some(3)
    /\ Len(recent_data) >= 1

\* C9: two returned records with the same date_mutation appear in the order
\* they have in the input list, and of two same-date records that pass the
\* filters the later-listed is returned only if the earlier-listed is: the
\* truncation at max_results keeps the earlier-listed.
C9_StableOnEqualDates ==
    pc # "start" =>
        /\ ReturnedAreInputRecords
        /\ \A k, l \in 1..Len(recent_idx) :
              (k < l /\ DateAt(recent_idx[k]) = DateAt(recent_idx[l]))
                  => recent_idx[k] < recent_idx[l]
        /\ max_results >= 0 =>
              \A i, j \in 1..Len(data) :
                  (/\ i < j
                   /\ Dated(i) /\ Dated(j)
                   /\ PassesRoomFilter(i) /\ PassesRoomFilter(j)
                   /\ DateAt(i) = DateAt(j)
                   /\ j \in Returned) => i \in Returned

\* A selection cut at max_results = 1 between two records of the same date
\* that differ in their room count.
C9_Witness ==
    /\ pc = "filtered"
    /\ max_results = 1
    /\ nb_pieces = None
    /\ Len(data) = 2
    /\ Dated(1) /\ Dated(2)
    /\ DateAt(1) = DateAt(2)
    /\ data[1] # data[2]
    /\ recent_idx = <<1>>

\* The k-th smallest of the prices p (k in 1..Len(p)).
OrderStat(p, k) ==
    CHOOSE x \in Range(p) :
        /\ Cardinality({i \in 1..Len(p) : p[i] < x}) < k
        /\ k <= Cardinality({i \in 1..Len(p) : p[i] <= x})

\* Four times the exclusive-method quartile i (1 or 3) of the prices p:
\* linear interpolation at rank i*(n+1)/4 of the sorted prices, 1-indexed.
ExclusiveQuartile4(p, i) ==
    LET rank4 == i * (Len(p) + 1)
        k == rank4 \div 4
        rem == rank4 % 4
    IN IF rem = 0 THEN 4 * OrderStat(p, k)
       ELSE (4 - rem) * OrderStat(p, k) + rem * OrderStat(p, k + 1)

InputPrices == [k \in 1..Len(extracted_data) |-> extracted_data[k].prix_m2]

\* The records of extracted_data, in order, whose prix_m2 is within lo..hi.
RecordsWithin(lo, hi) ==
    LET inside == SelectIdx([k \in 1..Len(extracted_data) |->
                                lo <= InputPrices[k] /\ InputPrices[k] <= hi],
                            Len(extracted_data), 1)
    IN [k \in 1..Len(inside) |-> extracted_data[inside[k]]]

\* floor(pct * n / 100)
FloorPct(pct, n) == CHOOSE q \in 0..n : 100 * q <= pct * n /\ pct * n < 100 * (q + 1)

\* C11: for every input of n >= 4 records, remove_outliers_iqr of
\* immosearch_server (trim-percentile) takes lower = sorted[floor(0.15*n)] and
\* upper = sorted[floor(0.85*n)] of the ascending prices, both indices being
\* inside 0..n-1, and returns exactly the input records with
\* lower <= prix_m2 <= upper.
C11_TrimBoundsAtPercentileIndices ==
    (impl = "immo" /\ pc # "extracted" /\ Len(extracted_data) >= 4) =>
        LET n == Len(extracted_data)
            li == FloorPct(15, n)
            ui == FloorPct(85, n)
        IN /\ TrimLowerIndex(n) = li
           /\ TrimUpperIndex(n) = ui
           /\ li \in 0..(n - 1)
           /\ ui \in 0..(n - 1)
           /\ cleaned_data = RecordsWithin(OrderStat(InputPrices, li + 1),
                                           OrderStat(InputPrices, ui + 1))

\* immosearch_server has trimmed a list of seven records at both ends: a
\* price below sorted[1] and a price above sorted[5] were removed.
C11_Witness ==
    /\ impl = "immo"
    /\ pc = "cleaned"
    /\ Len(extracted_data) = 7
    /\ Len(cleaned_data) = 5
    /\ \E k \in 1..7 : InputPrices[k] < OrderStat(InputPrices, 2)
    /\ \E k \in 1..7 : InputPrices[k] > OrderStat(InputPrices, 6)

\* The trim bounds sorted[floor(0.15*n)] and sorted[floor(0.85*n)] of the
\* records handed to remove_outliers_iqr.
TrimLower == OrderStat(InputPrices, FloorPct(15, Len(extracted_data)) + 1)

TrimUpper == OrderStat(InputPrices, FloorPct(85, Len(extracted_data)) + 1)

\* How many input records lie below the lower bound, above the upper bound.
ExcludedBelow ==
    LET lo == TrimLower
    IN Cardinality({k \in 1..Len(extracted_data) : extracted_data[k].prix_m2 < lo})

ExcludedAbove ==
    LET hi == TrimUpper
    IN Cardinality({k \in 1..Len(extracted_data) : extracted_data[k].prix_m2 > hi})

\* Every input record priced at a bound is in the output, as often as in the
\* input.
BoundaryRecordsRetained ==
    LET lo == TrimLower
        hi == TrimUpper
    IN \A r \in {x \in Range(extracted_data) : x.prix_m2 = lo \/ x.prix_m2 = hi} :
          Cardinality({j \in 1..Len(cleaned_data) : cleaned_data[j] = r})
              = Cardinality({j \in 1..Len(extracted_data) : extracted_data[j] = r})

\* A trim-percentile run on n >= 4 records is over.
Trimmed == impl = "immo" /\ pc # "extracted" /\ Len(extracted_data) >= 4

\* C12 as stated: the trim-percentile policy excludes, for every input of
\* n >= 4 records, exactly floor(0.15*n) records at the low end and at most
\* n - floor(0.85*n) at the high end, and retains the records priced at a
\* boundary value.
C12_ExactlyFloorExcludedBelow ==
    Trimmed =>
        LET n == Len(extracted_data)
            below == ExcludedBelow
            above == ExcludedAbove
        IN /\ below = FloorPct(15, n)
           /\ above <= n - FloorPct(85, n)
           /\ Len(cleaned_data) = n - below - above
           /\ BoundaryRecordsRetained

\* C12 amended: the excluded records are those priced strictly below
\* sorted[floor(0.15*n)] or strictly above sorted[floor(0.85*n)]; at most
\* floor(0.15*n) are excluded at the low end, exactly that many when the price
\* at sorted position floor(0.15*n) - 1 is below the lower bound (no tie with
\* the bound), at most n - 1 - floor(0.85*n) at the high end, and the records
\* priced at a boundary value are retained.
C12_AtMostFloorExcludedBelow ==
    Trimmed =>
        LET n == Len(extracted_data)
            li == FloorPct(15, n)
            below == ExcludedBelow
            above == ExcludedAbove
            tied == li >= 1 /\ OrderStat(InputPrices, li) = TrimLower
        IN /\ below <= li
           /\ (li >= 1 /\ ~tied) => below = li
           /\ tied => below < li
           /\ above <= n - 1 - FloorPct(85, n)
           /\ Len(cleaned_data) = n - below - above
           /\ BoundaryRecordsRetained

\* immosearch_server has trimmed seven records whose two lowest prices are
\* equal: nothing was excluded at the low end, one record at the high end.
C12_Witness ==
    /\ Trimmed
    /\ Len(extracted_data) = 7
    /\ OrderStat(InputPrices, 1) = TrimLower
    /\ ExcludedBelow = 0
    /\ ExcludedAbove = 1
    /\ Len(cleaned_data) = 6

\* C13: remove_outliers_iqr of each of the three implementations returns its
\* input unchanged, the same records in the same order, whenever the input
\* has fewer than 4 records.
C13_FewerThanFourUnchanged ==
    (pc # "extracted" /\ Len(extracted_data) < 4) => cleaned_data = extracted_data

\* Outlier removal has run on three records of three prices, the highest
\* fifty times the middle one, listed in descending price order.
C13_Witness ==
    /\ pc = "cleaned"
    /\ Len(extracted_data) = 3
    /\ InputPrices[1] > 40 * InputPrices[2]
    /\ InputPrices[2] > 40 * InputPrices[3]
    /\ Len(cleaned_data) = 3

\* The prices remove_outliers_iqr of implementation i keeps of the list d.
KeptPricesOf(i, d) ==
    LET out == remove_outliers_iqr(i, d) IN {out[k].prix_m2 : k \in 1..Len(out)}

\* The list d read backwards, every record moved to another street with
\* another room count: the same multiset of prix_m2, nothing else the same.
SamePricesOtherwiseDifferent(d) ==
    [k \in 1..Len(d) |->
        [d[Len(d) + 1 - k] EXCEPT !.voie = "RUE Z", !.nombre_pieces_principales = None]]

\* C14: under the quartile-fence and the trim-percentile policy the decision
\* to keep a record depends only on its prix_m2 and the multiset of the
\* input's prix_m2 values: the output is, in input order and unmodified, the
\* input records whose price is one of the kept prices (so two records of
\* equal prix_m2 are both kept or both removed), the kept prices are the same
\* for any list of the same prices, and a call leaves its input list as it
\* was.
C14_KeepDependsOnPriceOnly ==
    [][OutlierStep =>
        /\ extracted_data' = extracted_data
        /\ cleaned_data' =
               Filtered(extracted_data,
                        [k \in 1..Len(extracted_data) |->
                            \E j \in 1..Len(cleaned_data') :
                                cleaned_data'[j].prix_m2 = extracted_data[k].prix_m2])
        /\ KeptPricesOf(impl, SamePricesOtherwiseDifferent(extracted_data))
               = {cleaned_data'[j].prix_m2 : j \in 1..Len(cleaned_data')}]_vars

\* dvf_server (quartile fence) has removed a record from a list in which two
\* different records of one prix_m2 were both kept.
C14_Witness ==
    /\ impl = "dvf"
    /\ pc = "cleaned"
    /\ Len(cleaned_data) < Len(extracted_data)
    /\ \E j, k \in 1..Len(cleaned_data) :
          /\ cleaned_data[j] # cleaned_data[k]
          /\ cleaned_data[j].prix_m2 = cleaned_data[k].prix_m2

\* The standard-deviation entries a result of calculate_statistics holds.
StdevKeys ==
    DOMAIN stats \cap {"prix_m2_ecart_type", "loyer_5pct_ecart_type",
                       "loyer_6pct_ecart_type", "loyer_ecart_type",
                       "loyer_m2_ecart_type"}

\* C15: calculate_statistics, in sale mode and in rental mode, puts a
\* standard-deviation entry into its result exactly when the record count is
\* greater than 1; for a single record it does not raise and its result has
\* no standard-deviation entry.
C15_StdevIffMoreThanOneRecord ==
    (pc = "returned" /\ cleaned_data # <<>>) =>
        /\ result.status = "returned"
        /\ (StdevKeys # {}) <=> (Len(cleaned_data) > 1)

\* The prix_m2 values handed to calculate_statistics.
StatsPrices == [k \in 1..Len(cleaned_data) |-> cleaned_data[k].prix_m2]

\* v is s/n rounded to the nearest integer.
IsRounded(v, s, n) == 2 * Abs(n * v - s) <= n

\* C16: for every non-empty record list, sale-mode calculate_statistics
\* returns nb_transactions = number of records, the arithmetic mean, the
\* median (the middle value for an odd count, the average of the two middle
\* values for an even count), and min and max that are prix_m2 values of
\* input records, with min <= median <= max and min <= mean <= max; for the
\* prices 100, 200, 300 it returns count 3, mean 200, median 200, min 100,
\* max 300 and the sample standard deviation (divisor n - 1) 100.
C16_SaleStatistics ==
    (pc = "returned" /\ analysis_type = "sale" /\ cleaned_data # <<>>) =>
        LET p == StatsPrices
            n == Len(p)
        IN /\ result.status = "returned"
           /\ stats.nb_transactions = n
           /\ IsRounded(stats.prix_m2_moyen, SeqSum(p), n)
           /\ n % 2 = 1 => stats.prix_m2_median = OrderStat(p, (n + 1) \div 2)
           /\ n % 2 = 0 => IsRounded(stats.prix_m2_median,
                                     OrderStat(p, n \div 2) + OrderStat(p, n \div 2 + 1), 2)
           /\ stats.prix_m2_min \in Range(p)
           /\ stats.prix_m2_max \in Range(p)
           /\ \A k \in 1..n : stats.prix_m2_min <= p[k] /\ p[k] <= stats.prix_m2_max
           /\ stats.prix_m2_min <= stats.prix_m2_median
           /\ stats.prix_m2_median <= stats.prix_m2_max
           /\ stats.prix_m2_min <= stats.prix_m2_moyen
           /\ stats.prix_m2_moyen <= stats.prix_m2_max
           /\ (n = 3 /\ Range(p) = {100 * 100, 200 * 100, 300 * 100}) =>
                 stats = [nb_transactions |-> 3,
                          prix_m2_moyen |-> 200 * 100,
                          prix_m2_median |-> 200 * 100,
                          prix_m2_min |-> 100 * 100,
                          prix_m2_max |-> 300 * 100,
                          prix_m2_ecart_type |-> 100 * 100]

\* The sale statistics of the prices 300, 100, 200 have been computed.
C16_Witness ==
    /\ pc = "returned"
    /\ analysis_type = "sale"
    /\ StatsPrices = <<300 * 100, 100 * 100, 200 * 100>>
    /\ stats.prix_m2_ecart_type = 100 * 100

\* C17: calculate_statistics returns an empty result (no keys) for an empty
\* record list, in both modes, and does not raise.
C17_EmptyListEmptyResult ==
    (pc = "returned" /\ cleaned_data = <<>>) =>
        /\ result.status = "returned"
        /\ DOMAIN stats = {}

\* calculate_statistics has returned from a call in rental mode on the empty
\* list.
C17_Witness ==
    /\ pc = "returned"
    /\ analysis_type = "rental"
    /\ cleaned_data = <<>>
    /\ result.status = "returned"

\* The result key of a monthly-rent statistic of the yield rate r.
RateKey(r, stat) ==
    CASE r = 5 /\ stat = "moyen" -> "loyer_5pct_moyen"
      [] r = 5 /\ stat = "median" -> "loyer_5pct_median"
      [] r = 5 /\ stat = "min" -> "loyer_5pct_min"
      [] r = 5 /\ stat = "max" -> "loyer_5pct_max"
      [] r = 6 /\ stat = "moyen" -> "loyer_6pct_moyen"
      [] r = 6 /\ stat = "median" -> "loyer_6pct_median"
      [] r = 6 /\ stat = "min" -> "loyer_6pct_min"
      [] r = 6 /\ stat = "max" -> "loyer_6pct_max"
      [] r = 7 /\ stat = "moyen" -> "loyer_7pct_moyen"
      [] r = 7 /\ stat = "median" -> "loyer_7pct_median"
      [] r = 7 /\ stat = "min" -> "loyer_7pct_min"
      [] r = 7 /\ stat = "max" -> "loyer_7pct_max"

\* C19: in rental mode the statistics of the result are per yield rate: for
\* each yield rate attached to the records the result holds the mean, the
\* median, the min and the max of that rate's rents alone, and no entry
\* computed over the rents of several rates pooled together.
C19_RentalStatisticsPerRate ==
    (pc = "returned" /\ analysis_type = "rental" /\ cleaned_data # <<>>) =>
        /\ \A r \in DOMAIN cleaned_data[1].loyer_mensuel :
              LET rents == [k \in 1..Len(cleaned_data) |-> cleaned_data[k].loyer_mensuel[r]]
                  n == Len(rents)
              IN /\ \A stat \in {"moyen", "median", "min", "max"} :
                        RateKey(r, stat) \in DOMAIN stats
                 /\ IsRounded(stats[RateKey(r, "moyen")], SeqSum(rents), n)
                 /\ n % 2 = 1 =>
                        stats[RateKey(r, "median")] = OrderStat(rents, (n + 1) \div 2)
                 /\ n % 2 = 0 =>
                        IsRounded(stats[RateKey(r, "median")],
                                  OrderStat(rents, n \div 2) + OrderStat(rents, n \div 2 + 1), 2)
                 /\ stats[RateKey(r, "min")] = OrderStat(rents, 1)
                 /\ stats[RateKey(r, "max")] = OrderStat(rents, n)
        /\ DOMAIN stats \cap {"loyer_moyen", "loyer_median", "loyer_min", "loyer_max"} = {}

\* C18: in rental mode every extracted record carries, for each yield rate r
\* of its implementation (5 and 6; also 7 in immosearch_server), the monthly
\* rent round(valeur_fonciere * r / 1200, 2) and the rent per m2
\* round(monthly rent / surface_relle_bati, 2), computed from the rounded
\* monthly rent; in sale mode the record carries no rent field.
C18_RentsPerYieldRate ==
    pc # "filtered" =>
        \A k \in 1..Len(extracted_data) :
            LET e == extracted_data[k]
            IN IF analysis_type = "sale"
               THEN DOMAIN e \cap {"loyer_mensuel", "loyer_m2"} = {}
               ELSE /\ DOMAIN e.loyer_mensuel
                         = (IF impl = "immo" THEN {5, 6, 7} ELSE {5, 6})
                    /\ DOMAIN e.loyer_m2 = DOMAIN e.loyer_mensuel
                    /\ \A r \in DOMAIN e.loyer_mensuel :
                          /\ 2 * Abs(12 * 100 * e.loyer_mensuel[r]
                                     - 100 * e.valeur_fonciere * r) <= 12 * 100
                          /\ 2 * Abs(e.loyer_m2[r] * e.surface_relle_bati
                                     - e.loyer_mensuel[r]) <= e.surface_relle_bati

\* immosearch_server has extracted, in rental mode, the transaction of 450
\* euros and 3 m2: monthly rent 1.88 at 5%, rent per m2 0.63 from it, where
\* the unrounded 1.875 would give 0.62.
C18_Witness ==
    /\ pc = "extracted"
    /\ analysis_type = "rental"
    /\ impl = "immo"
    /\ \E k \in 1..Len(extracted_data) :
          /\ extracted_data[k].valeur_fonciere = 450
          /\ extracted_data[k].loyer_mensuel[5] = 188
          /\ extracted_data[k].loyer_m2[5] = 63
          /\ extracted_data[k].loyer_mensuel[7] = 262
          /\ Round2(450 * 5, 12 * 100 * 3) = 62

\* The sum of nb_transactions over the segments of a segmented result.
SegmentTotal(res) ==
    Cardinality(UNION {{<<k, j>> : j \in 1..res[k].nb_transactions} : k \in DOMAIN res})

\* Every record of d is counted in exactly one segment of the result res of
\* segmentation seg: each segment counts the records that carry its key,
\* a record's key is the room count or the year it shows, and the counts add
\* up to the number of records.
CountedOnce(seg, res, d) ==
    /\ \A k \in DOMAIN res :
          res[k].nb_transactions =
              Cardinality({j \in 1..Len(d) :
                              (seg = "year" => HasDate(d[j])) /\ SegmentKey(seg, d[j]) = k})
    /\ SegmentTotal(res) = Len(d)

\* C20: for analyze_by_rooms, analyze_by_year and the room segmentation
\* inside analyze_dvf_data of dvf_server.py, on every input record list,
\* every record is counted in exactly one segment and the sum of
\* nb_transactions over all segments equals the number of input records.
C20_EveryRecordInOneSegment ==
    [][/\ AnalyzeByRooms => CountedOnce("rooms", rooms_stats', cleaned_data)
       /\ AnalyzeByYear => CountedOnce("year", years_stats', cleaned_data)
       /\ (StatsStep /\ impl = "dvf")
            => CountedOnce("rooms_dvf", rooms_stats', cleaned_data)]_vars

\* The records of d that segmentation seg puts under key k, in the order of d.
SegmentMembers(seg, d, k) ==
    LET idx == SegmentIdx(seg, d, k)
    IN [j \in 1..Len(idx) |-> d[idx[j]]]

\* Every entry of the segmented result res is the sale-mode result of
\* calculate_statistics on the records of its segment.
SegmentsAreStatistics(i, seg, res, d) ==
    \A k \in DOMAIN res :
        res[k] = calculate_statistics(i, SegmentMembers(seg, d, k), "sale")

\* C21: for year and room segmentation, each segment's result equals what
\* sale-mode calculate_statistics (count, mean, median, min, max, and the
\* standard deviation for more than one record) returns for exactly that
\* segment's records.
C21_SegmentEqualsStatistics ==
    [][/\ AnalyzeByRooms => SegmentsAreStatistics("cli", "rooms", rooms_stats', cleaned_data)
       /\ AnalyzeByYear => SegmentsAreStatistics("cli", "year", years_stats', cleaned_data)
       /\ (StatsStep /\ impl = "dvf")
            => SegmentsAreStatistics("dvf", "rooms_dvf", rooms_stats', cleaned_data)]_vars

\* The reasons a call of implementation i can end with.
Reasons(i) ==
    {NoData(i, "filter").error, NoData(i, "extract").error, NoData(i, "outliers").error,
     FetchFailed(i).error, Fault(i, "ValueError").error, Fault(i, "TypeError").error}

\* The step ends the call with the no-data result of the stage: not a
\* success, the reason of that stage, no statistics.
EndsWithNoData(stage) ==
    /\ pc' = "done"
    /\ result'.status = "error"
    /\ result'.error = NoData(impl, stage).error
    /\ stats' = <<>>

\* C22: in analyze_dvf_data, when selection, extraction or outlier removal
\* yields zero records the call ends at that stage with a no-data result
\* that is not a success, no later stage runs (nothing follows "done"), and
\* the reasons of the three stages, of a failed fetch and of an internal
\* fault are all different.
C22_EmptyStageEndsCall ==
    [][impl # "cli" =>
        /\ (FilterStep /\ recent_data' = <<>>) => EndsWithNoData("filter")
        /\ (ExtractStep /\ ~ExtractRaises(recent_data) /\ extracted_data' = <<>>)
             => EndsWithNoData("extract")
        /\ (OutlierStep /\ cleaned_data' = <<>>) => EndsWithNoData("outliers")
        /\ pc # "done"
        /\ Cardinality(Reasons(impl)) = 6]_vars

\* A server call ended by an extraction that kept nothing of a non-empty
\* selection.
C22_Witness ==
    /\ impl = "dvf"
    /\ pc = "done"
    /\ recent_data # <<>>
    /\ extracted_data = <<>>
    /\ result = [status |-> "error", error |-> "No transactions with complete data found"]

\* The transactions whose value and surface are no strings.
NumericRows(ts) ==
    SelectSeq(ts, LAMBDA t : /\ t.valeur_fonciere = None \/ IsNumber(t.valeur_fonciere)
                             /\ t.surface_relle_bati = None \/ IsNumber(t.surface_relle_bati))

\* C23: a record whose value or area is present but not numeric is skipped
\* by extract_relevant_data like any other invalid row: the remaining valid
\* records are still extracted and the run does not fail because of it.
C23_NonNumericRowsSkipped ==
    pc \in {"extracted", "cleaned", "done"} =>
        /\ extracted_data = extract_relevant_data(impl, NumericRows(recent_data), analysis_type)
        /\ result.status # "raised"
        /\ result # Fault(impl, "TypeError")

\* How far a call has come.
Rank(p) ==
    CASE p = "fetch" -> 0 [] p = "start" -> 1 [] p = "filtered" -> 2
      [] p = "extracted" -> 3 [] p = "cleaned" -> 4 [] OTHER -> 5

\* C24: analyze_dvf_data of the two servers ends every call, whatever the
\* fetch outcome and the record list, with a result that carries a status
\* the caller can branch on; no exception propagates: until the return
\* nothing is returned and every step moves the call forward, and at the
\* return the status is "success" or "error".
C24_EveryCallReturnsStatus ==
    /\ [](impl # "cli" =>
            /\ pc = "done" => result.status \in {"success", "error"}
            /\ pc # "done" => result = Pending)
    /\ [][Rank(pc') > Rank(pc)]_vars

\* A server call in which extract_relevant_data raised TypeError.
C24_Witness ==
    /\ impl = "immo"
    /\ pc = "done"
    /\ recent_data # <<>>
    /\ result = [status |-> "error", error |-> "Analysis failed: TypeError"]

\* C25: get_map of a client whose own search succeeded is computed from
\* the properties that search returned, whatever the other client did in
\* between.
C25_MapFromOwnSearch ==
    [][\A c \in Clients :
         (GetMap(c) /\ search_result[c].status = "success") =>
             /\ map_result'[c].status = "returned"
             /\ map_result'[c].shown =
                  FilteredList(search_result[c].properties, map_result'[c].idx_list)]_vars

C28_OutlierRemovalKeepsSome ==
    (pc # "extracted" /\ extracted_data # <<>>) =>
        /\ cleaned_data # <<>>
        /\ pc = "cleaned"
        /\ result = Pending
        /\ result # NoData(impl, "outliers")

\* The trim of immosearch_server removed records and kept others.
C28_Witness ==
    /\ impl = "immo"
    /\ pc = "cleaned"
    /\ cleaned_data # <<>>
    /\ Len(cleaned_data) < Len(extracted_data)

\* The number of positions of s that hold x.
Occurrences(s, x) == Cardinality({k \in 1..Len(s) : s[k] = x})

\* A run that reached its report.
RunCompleted == pc = "done" /\ result.error = "" /\ result.status \in {"success", "none"}

\* C26: the recent examples of a completed run of dvf_server (and of the
\* CLI) are at most 5 records, each taken from the cleaned set, in
\* non-increasing date order, and no cleaned record left out is dated
\* strictly later than an included one.
C26_RecentExamplesAreLatest ==
    (impl # "immo" /\ RunCompleted) =>
        LET ex == recent_examples
            cl == cleaned_data
        IN /\ Len(ex) <= 5
           /\ \A k \in 1..Len(ex) : Occurrences(ex, ex[k]) <= Occurrences(cl, ex[k])
           /\ \A k \in 1..(Len(ex) - 1) :
                ex[k].date_mutation[1] >= ex[k + 1].date_mutation[1]
           /\ \A j \in 1..Len(cl) :
                Occurrences(cl, cl[j]) > Occurrences(ex, cl[j]) =>
                    \A k \in 1..Len(ex) :
                        cl[j].date_mutation[1] <= ex[k].date_mutation[1]

\* Six cleaned records of dvf_server, of which one of the two oldest is
\* left out of the five examples.
C26_Witness ==
    /\ impl = "dvf"
    /\ RunCompleted
    /\ Len(cleaned_data) = 6
    /\ Len(recent_examples) = 5
    /\ \E j \in 1..6 :
         /\ Occurrences(recent_examples, cleaned_data[j]) = 0
         /\ cleaned_data[j].date_mutation[1] < recent_examples[1].date_mutation[1]
         /\ cleaned_data[j].date_mutation[1] = recent_examples[5].date_mutation[1]

\* C29: in every successful result of the two servers the stage counts
\* are consistent: analysed + removed = with data, removed >= 0,
\* 1 <= analysed <= with data <= selected <= max_results, the statistics
\* count the analysed records, and the most recent date of the selection
\* is not before its oldest.
C29_StageCountsConsistent ==
    (impl # "cli" /\ pc = "done" /\ result.status = "success") =>
        /\ summary.transactions_analyzed + summary.outliers_removed
             = summary.transactions_with_data
        /\ summary.outliers_removed >= 0
        /\ 1 <= summary.transactions_analyzed
        /\ summary.transactions_analyzed <= summary.transactions_with_data
        /\ summary.transactions_with_data <= Len(recent_data)
        /\ Len(recent_data) <= max_results
        /\ stats.nb_transactions = summary.transactions_analyzed
        /\ summary.most_recent # None
        /\ summary.oldest_in_selection # None
        /\ summary.most_recent[1] >= summary.oldest_in_selection[1]

\* A result of immosearch_server with a record without surface selected, a
\* record removed as outlier, and a selection spanning several dates.
C29_Witness ==
    /\ impl = "immo"
    /\ pc = "done"
    /\ result.status = "success"
    /\ summary.outliers_removed > 0
    /\ summary.transactions_with_data < Len(recent_data)
    /\ summary.most_recent[1] > summary.oldest_in_selection[1]

====
